---- MODULE Spec2Model ----
(***************************************************************************)
(* A model of piper-go-gen: the two tar+zstd archive writers (Tarball in   *)
(* main.go, TarZstWriter in tarzst.go), the caching downloader, the        *)
(* metadata fingerprint, and the two install operations that drive them.   *)
(*                                                                         *)
(* Strings the code inspects (paths, URLs, entry names) are sequences of   *)
(* one-character strings; byte contents are sequences of small naturals.   *)
(* A Go error is a sequence of message strings (errors.Join's list); the   *)
(* nil error is the empty sequence.                                        *)
(***************************************************************************)
EXTENDS Integers, Sequences, FiniteSets, TLC

VARIABLES
    impl,       \* which archive writer the run uses: "Tarball" | "TarZstWriter"
    tb,         \* the archive writer: tar writer, encoder, file, close events
    calls,      \* the writer's calls so far: arguments and returned error
    cache,      \* the download cache directory: path -> file
    netCalls,   \* number of http.Get requests issued so far
    dlLog,      \* the download calls so far: arguments and results
    files,      \* the files installMeta is pointed at: name -> file
    distJson,   \* the metadata record dist.json of the package directory
    metaCalls,  \* the last two installMeta calls: arguments and results
    pkgs,       \* the package directories: asset -> archive, scaffold, metadata
    runs        \* the install runs so far: asset, source, steps, returned error

vars == <<impl, tb, calls, cache, netCalls, dlLog, files, distJson, metaCalls,
          pkgs, runs>>

(***************************************************************************)
(* Bounds of the model.                                                    *)
(***************************************************************************)
\* Longest list of filenames handed to installMeta.
MaxFiles == 2
\* Append/AppendFile calls made on one writer.
MaxEntries == 2
\* Longest content stream, and largest header size, handed to Append.
MaxLen == 1
\* tar's block length (512 bytes in archive/tar), scaled down.
BlockSize == 2

Byte == {1, 2}
NilError == <<>>

(***************************************************************************)
(* Generic helpers.                                                        *)
(***************************************************************************)
Min(a, b) == IF a < b THEN a ELSE b

Range(s) == {s[i] : i \in 1..Len(s)}

SeqsUpTo(S, n) == UNION {[1..k -> S] : k \in 0..n}

\* strings.HasSuffix / strings.HasPrefix / strings.TrimPrefix on character sequences
HasSuffix(s, suf) ==
    /\ Len(s) >= Len(suf)
    /\ SubSeq(s, Len(s) - Len(suf) + 1, Len(s)) = suf

HasPrefix(s, pre) ==
    /\ Len(s) >= Len(pre)
    /\ SubSeq(s, 1, Len(pre)) = pre

TrimPrefix(s, pre) ==
    IF HasPrefix(s, pre) THEN SubSeq(s, Len(pre) + 1, Len(s)) ELSE s

\* fmt.Errorf("<msg>: %w", err): the wrapping message in front of the wrapped ones
Wrap(msg, err) == <<msg>> \o err

\* errors.Join(a, b): nil operands are dropped, nil when both are nil
Join(a, b) == a \o b

(***************************************************************************)
(* File modes.  An fs.FileMode is a record of its type and permission      *)
(* bits; int64(mode) is the number the tar header carries.                 *)
(***************************************************************************)
ModeSymlinkBit == 2^27
ModeDeviceBit == 2^26

IsRegular(m) == m.typ = "reg"
IsSymlinkMode(m) == m.typ = "symlink"

Int64OfMode(m) ==
    m.perm + (CASE m.typ = "symlink" -> ModeSymlinkBit
                [] m.typ = "device" -> ModeDeviceBit
                [] m.typ = "dir" -> 2^30 + 2^30
                [] OTHER -> 0)

(***************************************************************************)
(* archive/tar's Writer, as the two archive writers use it.  The stream    *)
(* it writes is a sequence of tokens: a header block, content bytes,       *)
(* padding bytes, and the zero blocks of the trailer.                      *)
(***************************************************************************)
TypeRegA == "NUL"
TypeReg == "0"
TypeSymlink == "2"
TypeDir == "5"

IsHeaderOnlyType(flag) == flag \in {TypeSymlink, TypeDir}

BlockPadding(n) == (BlockSize - (n % BlockSize)) % BlockSize

\* the zero value of tar.Header
NoHeader ==
    [Name |-> <<>>, Mode |-> 0, Size |-> 0, Linkname |-> <<>>, Typeflag |-> TypeRegA]

HdrTok(h) == [k |-> "hdr", h |-> h, b |-> 0]
DataTok(b) == [k |-> "data", h |-> NoHeader, b |-> b]
PadTok == [k |-> "pad", h |-> NoHeader, b |-> 0]
ZeroTok == [k |-> "zero", h |-> NoHeader, b |-> 0]

DataToks(bs) == [i \in 1..Len(bs) |-> DataTok(bs[i])]
PadToks(n) == [i \in 1..n |-> PadTok]

NewTarWriter == [out |-> <<>>, nb |-> 0, pad |-> 0, err |-> ""]

\* tar.Writer.Flush: fails while content of the current entry is missing,
\* else writes the padding of the current entry
TarFlush(w, fault) ==
    IF w.err # "" THEN [w |-> w, err |-> w.err]
    ELSE IF w.nb > 0 THEN [w |-> w, err |-> "missed"]
    ELSE IF fault THEN [w |-> [w EXCEPT !.err = "io"], err |-> "io"]
    ELSE [w |-> [w EXCEPT !.out = @ \o PadToks(w.pad), !.pad = 0], err |-> ""]

\* tar.Writer.WriteHeader: flushes the previous entry, promotes the legacy
\* type flag, writes the header block and sets up the content writer
TarWriteHeader(w, h, fault) ==
    LET f == TarFlush(w, FALSE)
        flag == IF h.Typeflag = TypeRegA
                THEN (IF HasSuffix(h.Name, <<"/">>) THEN TypeDir ELSE TypeReg)
                ELSE h.Typeflag
        size == IF IsHeaderOnlyType(flag) THEN 0 ELSE h.Size
    IN IF f.err # "" THEN f
       ELSE IF fault THEN [w |-> [f.w EXCEPT !.err = "io"], err |-> "io"]
       ELSE [w |-> [f.w EXCEPT !.out = @ \o <<HdrTok([h EXCEPT !.Typeflag = flag])>>,
                               !.nb = size,
                               !.pad = BlockPadding(size)],
             err |-> ""]

\* tar.Writer.Write over the whole content stream (io.Copy): at most the
\* header's size is written, and more than that is ErrWriteTooLong, which
\* is not a sticky error
TarWrite(w, data, fault) ==
    LET n == Min(Len(data), w.nb)
    IN IF data = <<>> THEN [w |-> w, err |-> ""]
       ELSE IF w.err # "" THEN [w |-> w, err |-> w.err]
       ELSE IF fault THEN [w |-> [w EXCEPT !.err = "io"], err |-> "io"]
       ELSE [w |-> [w EXCEPT !.out = @ \o DataToks(SubSeq(data, 1, n)),
                             !.nb = @ - n],
             err |-> IF Len(data) > w.nb THEN "toolong" ELSE ""]

\* tar.Writer.Close: flushes and writes the two zero blocks of the trailer
TarClose(w, fault) ==
    IF w.err = "closed" THEN [w |-> w, err |-> ""]
    ELSE IF w.err # "" THEN [w |-> w, err |-> w.err]
    ELSE LET f == TarFlush(w, fault)
         IN IF f.err # "" THEN [w |-> [f.w EXCEPT !.err = "closed"], err |-> f.err]
            ELSE [w |-> [f.w EXCEPT !.out = @ \o <<ZeroTok, ZeroTok>>,
                                    !.err = "closed"],
                  err |-> ""]

(***************************************************************************)
(* archive/tar's Reader over a token stream: the entries it yields, and    *)
(* the error it stops with ("" at a clean end of the archive).             *)
(***************************************************************************)
RECURSIVE ReadFrom(_, _, _)
ReadFrom(out, i, acc) ==
    IF i > Len(out) THEN [entries |-> acc, err |-> ""]
    ELSE IF out[i].k = "zero" THEN [entries |-> acc, err |-> ""]
    ELSE IF out[i].k # "hdr" THEN [entries |-> acc, err |-> "ErrHeader"]
    ELSE LET h == out[i].h
             nb == IF IsHeaderOnlyType(h.Typeflag) THEN 0 ELSE h.Size
             last == i + nb
             next == last + BlockPadding(nb) + 1
         IN IF last > Len(out) \/ \E j \in (i + 1)..last : out[j].k # "data"
            THEN [entries |-> acc, err |-> "ErrUnexpectedEOF"]
            ELSE ReadFrom(out, next,
                          Append(acc, [Name |-> h.Name, Mode |-> h.Mode,
                                       Size |-> h.Size, Linkname |-> h.Linkname,
                                       Content |-> [j \in 1..nb |-> out[i + j].b]]))

ReadArchive(out) == ReadFrom(out, 1, <<>>)

(***************************************************************************)
(* The archive writers.  A writer owns the tar writer, the zstd encoder    *)
(* and the file; closes records each layer close in the order made.        *)
(***************************************************************************)
Layers == {"writer", "encoder", "file"}
AppendFaults == {"none", "header", "copy", "flush"}

\* newTarball / createTarZst after a successful create
NewWriter ==
    [writer |-> NewTarWriter, encoder |-> "open", file |-> "open", closes |-> <<>>]

CloseEvent(layer, failed) == [layer |-> layer, failed |-> failed]

\* an Append that copies the content and never flushes the entry
TarballAppendNoFlush(t, h, r, fault) ==
    LET wh == TarWriteHeader(t.writer, h, fault = "header")
        cp == TarWrite(wh.w, r, fault = "copy")
    IN IF wh.err # ""
       THEN [tb |-> [t EXCEPT !.writer = wh.w], read |-> 0,
             err |-> Wrap("failed to write header", <<wh.err>>)]
       ELSE IF cp.err # ""
       THEN [tb |-> [t EXCEPT !.writer = cp.w], read |-> Len(r),
             err |-> Wrap("failed to copy data", <<cp.err>>)]
       ELSE [tb |-> [t EXCEPT !.writer = cp.w], read |-> Len(r), err |-> NilError]

\* Tarball.Append: header, then the whole content, then a flush
TarballAppend(t, h, r, fault) ==
    LET wh == TarWriteHeader(t.writer, h, fault = "header")
        cp == TarWrite(wh.w, r, fault = "copy")
        fl == TarFlush(cp.w, fault = "flush")
    IN IF wh.err # ""
       THEN [tb |-> [t EXCEPT !.writer = wh.w], read |-> 0,
             err |-> Wrap("failed to write header", <<wh.err>>)]
       ELSE IF cp.err # ""
       THEN [tb |-> [t EXCEPT !.writer = cp.w], read |-> Len(r),
             err |-> Wrap("failed to copy data", <<cp.err>>)]
       ELSE IF fl.err # ""
       THEN [tb |-> [t EXCEPT !.writer = fl.w], read |-> Len(r),
             err |-> Wrap("failed to flush data", <<fl.err>>)]
       ELSE [tb |-> [t EXCEPT !.writer = fl.w], read |-> Len(r), err |-> NilError]

\* TarZstWriter.Append: the same steps under its own messages
TarZstWriterAppend(t, h, r, fault) ==
    LET wh == TarWriteHeader(t.writer, h, fault = "header")
        cp == TarWrite(wh.w, r, fault = "copy")
        fl == TarFlush(cp.w, fault = "flush")
    IN IF wh.err # ""
       THEN [tb |-> [t EXCEPT !.writer = wh.w], read |-> 0,
             err |-> Wrap("TarZstWriter.Append: header", <<wh.err>>)]
       ELSE IF cp.err # ""
       THEN [tb |-> [t EXCEPT !.writer = cp.w], read |-> Len(r),
             err |-> Wrap("TarZstWriter.Append: copy", <<cp.err>>)]
       ELSE IF fl.err # ""
       THEN [tb |-> [t EXCEPT !.writer = fl.w], read |-> Len(r),
             err |-> Wrap("TarZstWriter.Append: copy", <<fl.err>>)]
       ELSE [tb |-> [t EXCEPT !.writer = fl.w], read |-> Len(r), err |-> NilError]

(***************************************************************************)
(* The files AppendFile is pointed at.  A path is absent, a regular file   *)
(* or a symbolic link; lstat of a link reports the length of its target    *)
(* path as the size, and open follows the link.                            *)
(***************************************************************************)
RegFile(perm, data) == [typ |-> "reg", perm |-> perm, data |-> data, target |-> <<>>]
Symlink(target) == [typ |-> "symlink", perm |-> 511, data |-> <<>>, target |-> target]

SrcFS ==
    (<<"f">> :> RegFile(420, <<1, 2>>)) @@
    (<<"g">> :> RegFile(493, <<2>>)) @@
    (<<"e">> :> RegFile(420, <<>>)) @@
    (<<"l">> :> Symlink(<<"f">>)) @@
    (<<"k">> :> Symlink(<<"g">>)) @@
    (<<"m">> :> Symlink(<<"e">>)) @@
    (<<"x">> :> Symlink(<<"n">>))

SrcPaths == DOMAIN SrcFS \cup {<<"n">>}

\* os.Open(src): the file the path leads to, through a symbolic link
OsOpen(fs, src) ==
    IF src \notin DOMAIN fs THEN [ok |-> FALSE, path |-> <<>>]
    ELSE IF fs[src].typ # "symlink" THEN [ok |-> TRUE, path |-> src]
    ELSE IF fs[src].target \in DOMAIN fs /\ fs[fs[src].target].typ = "reg"
    THEN [ok |-> TRUE, path |-> fs[src].target]
    ELSE [ok |-> FALSE, path |-> <<>>]

\* os.Lstat(src): mode and size of the path itself
OsLstat(fs, src) ==
    [mode |-> [typ |-> fs[src].typ, perm |-> fs[src].perm],
     size |-> IF fs[src].typ = "symlink" THEN Len(fs[src].target) ELSE Len(fs[src].data)]

\* the header AppendFile builds from lstat and readlink
FileHeader(fs, dest, src) ==
    LET info == OsLstat(fs, src)
    IN [Name |-> dest,
        Mode |-> Int64OfMode(info.mode),
        Size |-> info.size,
        Linkname |-> IF IsSymlinkMode(info.mode) THEN fs[src].target ELSE <<>>,
        Typeflag |-> TypeRegA]

\* Tarball.AppendFile
TarballAppendFile(t, fs, dest, src, fault) ==
    LET f == OsOpen(fs, src)
        a == TarballAppend(t, FileHeader(fs, dest, src), fs[f.path].data, fault)
    IN IF ~f.ok
       THEN [tb |-> t, read |-> 0, opened |-> <<>>, err |-> <<"failed to open">>]
       ELSE [tb |-> a.tb, read |-> a.read, opened |-> f.path,
             err |-> IF a.err = NilError THEN NilError
                     ELSE Wrap("failed to append file", a.err)]

\* TarZstWriter.AppendFile
TarZstWriterAppendFile(t, fs, dest, src, fault) ==
    LET f == OsOpen(fs, src)
        a == TarZstWriterAppend(t, FileHeader(fs, dest, src), fs[f.path].data, fault)
    IN IF ~f.ok
       THEN [tb |-> t, read |-> 0, opened |-> <<>>,
             err |-> <<"TarZstWriter.AppendFile: open">>]
       ELSE [tb |-> a.tb, read |-> a.read, opened |-> f.path,
             err |-> IF a.err = NilError THEN NilError
                     ELSE Wrap("TarZstWriter.AppendFile", a.err)]

(***************************************************************************)
(* Close.  fails is the set of layers whose close meets an I/O failure;    *)
(* the tar writer's close also fails on its own pending error.             *)
(***************************************************************************)
\* a close that returns at the first layer that fails
TarballCloseFirstFailureOnly(t, fails) ==
    LET wc == TarClose(t.writer, "writer" \in fails)
    IN IF wc.err # ""
       THEN [tb |-> [t EXCEPT !.writer = wc.w,
                              !.closes = @ \o <<CloseEvent("writer", TRUE)>>],
             err |-> Wrap("failed to close writer", <<wc.err>>)]
       ELSE IF "encoder" \in fails
       THEN [tb |-> [t EXCEPT !.writer = wc.w, !.encoder = "closed",
                              !.closes = @ \o <<CloseEvent("writer", FALSE),
                                                CloseEvent("encoder", TRUE)>>],
             err |-> Wrap("failed to close encoder", <<"io">>)]
       ELSE [tb |-> [t EXCEPT !.writer = wc.w, !.encoder = "closed", !.file = "closed",
                              !.closes = @ \o <<CloseEvent("writer", FALSE),
                                                CloseEvent("encoder", FALSE),
                                                CloseEvent("file", "file" \in fails)>>],
             err |-> IF "file" \in fails
                     THEN Wrap("failed to close file", <<"io">>) ELSE NilError]

\* a close that closes the file before the layers writing into it
TarballCloseFileFirst(t, fails) ==
    LET wc == TarClose(t.writer, "writer" \in fails)
        e1 == IF "file" \in fails
              THEN Join(NilError, Wrap("failed to close file", <<"io">>)) ELSE NilError
        e2 == IF wc.err # ""
              THEN Join(e1, Wrap("failed to close writer", <<wc.err>>)) ELSE e1
        e3 == IF "encoder" \in fails
              THEN Join(e2, Wrap("failed to close encoder", <<"io">>)) ELSE e2
    IN [tb |-> [t EXCEPT !.writer = wc.w, !.encoder = "closed", !.file = "closed",
                         !.closes = @ \o <<CloseEvent("file", "file" \in fails),
                                           CloseEvent("writer", wc.err # ""),
                                           CloseEvent("encoder", "encoder" \in fails)>>],
        err |-> e3]

\* Tarball.Close: every layer is closed, every failure is joined
TarballClose(t, fails) ==
    LET wc == TarClose(t.writer, "writer" \in fails)
        e1 == IF wc.err # ""
              THEN Join(NilError, Wrap("failed to close writer", <<wc.err>>)) ELSE NilError
        e2 == IF "encoder" \in fails
              THEN Join(e1, Wrap("failed to close encoder", <<"io">>)) ELSE e1
        e3 == IF "file" \in fails
              THEN Join(e2, Wrap("failed to close file", <<"io">>)) ELSE e2
    IN [tb |-> [t EXCEPT !.writer = wc.w, !.encoder = "closed", !.file = "closed",
                         !.closes = @ \o <<CloseEvent("writer", wc.err # ""),
                                           CloseEvent("encoder", "encoder" \in fails),
                                           CloseEvent("file", "file" \in fails)>>],
        err |-> e3]

\* TarZstWriter.Close: the three closes are made, the first failure is
\* put in a local, and nil is returned
TarZstWriterClose(t, fails) ==
    LET wc == TarClose(t.writer, "writer" \in fails)
        e1 == IF wc.err # "" THEN Wrap("TarZstWriter.Close: tar", <<wc.err>>) ELSE NilError
        e2 == IF e1 = NilError /\ "encoder" \in fails
              THEN Wrap("TarZstWriter.Close: zst", <<"io">>) ELSE e1
        e3 == IF e2 = NilError /\ "file" \in fails
              THEN Wrap("TarZstWriter.Close: file", <<"io">>) ELSE e2
    IN [tb |-> [t EXCEPT !.writer = wc.w, !.encoder = "closed", !.file = "closed",
                         !.closes = @ \o <<CloseEvent("writer", wc.err # ""),
                                           CloseEvent("encoder", "encoder" \in fails),
                                           CloseEvent("file", "file" \in fails)>>],
        local |-> e3,
        err |-> NilError]

(***************************************************************************)
(* Specification SpecArchive: one archive writer, created by newTarball    *)
(* or createTarZst, receives Append and AppendFile calls and one Close.    *)
(***************************************************************************)
EntryNames == {<<"a">>, <<"d", "/">>}

HeaderKinds ==
    {[mode |-> 420, link |-> <<>>, flag |-> TypeRegA],
     [mode |-> ModeSymlinkBit + 511, link |-> <<"a">>, flag |-> TypeSymlink]}

AppendHeaders ==
    {[Name |-> n, Mode |-> k.mode, Size |-> sz, Linkname |-> k.link, Typeflag |-> k.flag] :
        n \in EntryNames, k \in HeaderKinds, sz \in 0..MaxLen}

Contents == SeqsUpTo(Byte, MaxLen)

Call(op, h, data, src, r) ==
    [op |-> op, h |-> h, data |-> data, src |-> src,
     opened |-> r.opened, read |-> r.read, err |-> r.err, closes |-> r.closes]

NumAppends == Cardinality({i \in 1..Len(calls) : calls[i].op # "Close"})

\* the callers append to an open writer and stop at the first failed append
\* (installVoice and installPiper return on it)
MayAppend ==
    /\ tb.file = "open"
    /\ NumAppends < MaxEntries
    /\ \A i \in 1..Len(calls) : calls[i].err = NilError

IdleDownload ==
    /\ cache = <<>>
    /\ netCalls = 0
    /\ dlLog = <<>>

IdleMeta ==
    /\ files = <<>>
    /\ distJson = [exists |-> FALSE, Version |-> "", Hash |-> <<>>]
    /\ metaCalls = <<>>

IdleInstall ==
    /\ pkgs = <<>>
    /\ runs = <<>>

InitArchive ==
    /\ impl \in {"Tarball", "TarZstWriter"}
    /\ tb = NewWriter
    /\ calls = <<>>
    /\ IdleDownload
    /\ IdleMeta
    /\ IdleInstall

CallAppend(r, h, data) ==
    /\ tb' = r.tb
    /\ calls' = Append(calls, Call("Append", h, data, <<>>,
                                   [opened |-> <<>>, read |-> r.read, err |-> r.err,
                                    closes |-> <<>>]))
    /\ UNCHANGED <<impl, cache, netCalls, dlLog, files, distJson, metaCalls, pkgs, runs>>

CallTarballAppend ==
    /\ impl = "Tarball"
    /\ MayAppend
    /\ \E h \in AppendHeaders, data \in Contents :
          CallAppend(TarballAppend(tb, h, data, "none"), h, data)

CallTarZstWriterAppend ==
    /\ impl = "TarZstWriter"
    /\ MayAppend
    /\ \E h \in AppendHeaders, data \in Contents :
          CallAppend(TarZstWriterAppend(tb, h, data, "none"), h, data)

CallAppendFile(r, dest, src) ==
    /\ tb' = r.tb
    /\ calls' = Append(calls, Call("AppendFile",
                                   IF r.opened = <<>> THEN NoHeader
                                   ELSE FileHeader(SrcFS, dest, src),
                                   IF r.opened = <<>> THEN <<>> ELSE SrcFS[r.opened].data,
                                   src,
                                   [opened |-> r.opened, read |-> r.read, err |-> r.err,
                                    closes |-> <<>>]))
    /\ UNCHANGED <<impl, cache, netCalls, dlLog, files, distJson, metaCalls, pkgs, runs>>

CallTarballAppendFile ==
    /\ impl = "Tarball"
    /\ MayAppend
    /\ \E src \in SrcPaths :
          CallAppendFile(TarballAppendFile(tb, SrcFS, <<"a">>, src, "none"), <<"a">>, src)

CallTarZstWriterAppendFile ==
    /\ impl = "TarZstWriter"
    /\ MayAppend
    /\ \E src \in SrcPaths :
          CallAppendFile(TarZstWriterAppendFile(tb, SrcFS, <<"a">>, src, "none"), <<"a">>, src)

CallClose(r) ==
    /\ tb' = r.tb
    /\ calls' = Append(calls, Call("Close", NoHeader, <<>>, <<>>,
                                   [opened |-> <<>>, read |-> 0, err |-> r.err,
                                    closes |-> SubSeq(r.tb.closes, Len(tb.closes) + 1,
                                                      Len(r.tb.closes))]))
    /\ UNCHANGED <<impl, cache, netCalls, dlLog, files, distJson, metaCalls, pkgs, runs>>

CallTarballClose ==
    /\ impl = "Tarball"
    /\ tb.file = "open"
    /\ \E fails \in SUBSET Layers : CallClose(TarballClose(tb, fails))

CallTarZstWriterClose ==
    /\ impl = "TarZstWriter"
    /\ tb.file = "open"
    /\ \E fails \in SUBSET Layers : CallClose(TarZstWriterClose(tb, fails))

NextArchive ==
    \/ CallTarballAppend
    \/ CallTarZstWriterAppend
    \/ CallTarballAppendFile
    \/ CallTarZstWriterAppendFile
    \/ CallTarballClose
    \/ CallTarZstWriterClose

SpecArchive == InitArchive /\ [][NextArchive]_vars

(***************************************************************************)
(* Claims about the archive writers (checked under SpecArchive).           *)
(***************************************************************************)
CloseCalls == {i \in 1..Len(calls) : calls[i].op = "Close"}
AppendCalls == SelectSeq(calls, LAMBDA c : c.op # "Close")

FailedLayers(c) == {e.layer : e \in {x \in Range(c.closes) : x.failed}}
ClosedLayers(c) == [i \in 1..Len(c.closes) |-> c.closes[i].layer]

TarballCloseMessage(layer) ==
    CASE layer = "writer" -> "failed to close writer"
      [] layer = "encoder" -> "failed to close encoder"
      [] layer = "file" -> "failed to close file"

\* C1: Tarball.Close attempts the close of all three layers whatever the
\* earlier ones did, returns nil exactly when all three succeeded, and its
\* error carries the failure of every layer that failed.
C1_CloseAggregatesEveryFailure ==
    \A i \in CloseCalls :
        impl = "Tarball" =>
            /\ Range(ClosedLayers(calls[i])) = Layers
            /\ (calls[i].err = NilError) <=> (FailedLayers(calls[i]) = {})
            /\ \A l \in FailedLayers(calls[i]) :
                   TarballCloseMessage(l) \in Range(calls[i].err)

\* a Tarball.Close in which the encoder and the file both failed to close
C1_Witness ==
    /\ impl = "Tarball"
    /\ \E i \in CloseCalls :
          /\ FailedLayers(calls[i]) = {"encoder", "file"}
          /\ Len(calls[i].err) = 4

IsSymlinkSource(c) ==
    /\ c.op = "AppendFile"
    /\ c.src \in DOMAIN SrcFS
    /\ SrcFS[c.src].typ = "symlink"

\* C2: AppendFile on a symbolic link returns nil after writing an entry
\* that carries the link's own target and no content, and it reads no byte
\* of the file the link points to.
C2_SymlinkEntryHasTargetAndNoContent ==
    (calls # <<>> /\ IsSymlinkSource(calls[Len(calls)])) =>
        LET c == calls[Len(calls)]
            es == ReadArchive(tb.writer.out).entries
        IN /\ c.err = NilError
           /\ c.read = 0
           /\ c.opened # SrcFS[c.src].target
           /\ es # <<>>
           /\ es[Len(es)].Linkname = SrcFS[c.src].target
           /\ es[Len(es)].Size = 0
           /\ es[Len(es)].Content = <<>>

CallEntry(c) ==
    [Name |-> c.h.Name, Mode |-> c.h.Mode, Size |-> c.h.Size,
     Linkname |-> c.h.Linkname, Content |-> c.data]

AppendedEntries == [i \in 1..Len(AppendCalls) |-> CallEntry(AppendCalls[i])]

\* C3: while every Append (and AppendFile) so far returned nil, reading the
\* stream written so far, and so the closed archive, yields exactly the
\* appended entries in order with their name, mode, size, link target and
\* content, and the last entry is complete and flushed: no content is
\* missing and no padding is pending when the next Append begins.
C3_RoundTrip ==
    (\A i \in 1..Len(AppendCalls) : AppendCalls[i].err = NilError) =>
        /\ ReadArchive(tb.writer.out) = [entries |-> AppendedEntries, err |-> ""]
        /\ tb.writer.nb = 0
        /\ tb.writer.pad = 0

\* two entries, one with content and one with a link target, appended
\* with nil results and closed without a failure
C3_Witness ==
    /\ Len(calls) = 3
    /\ calls[1].op = "Append" /\ calls[1].data # <<>> /\ calls[1].err = NilError
    /\ calls[2].op = "Append" /\ calls[2].h.Linkname # <<>> /\ calls[2].err = NilError
    /\ calls[3].op = "Close" /\ FailedLayers(calls[3]) = {}
    /\ Len(tb.writer.out) > 3

\* C7: TarZstWriter.Close returns a non-nil error whenever the close of the
\* tar writer, of the encoder or of the file failed.
C7_TarZstCloseReportsFailure ==
    \A i \in CloseCalls :
        (impl = "TarZstWriter" /\ FailedLayers(calls[i]) # {}) =>
            calls[i].err # NilError

\* C9: in both writers a Close closes the tar writer, then the encoder,
\* then the file, each once, whatever the outcome of the earlier closes.
C9_CloseOrderInnerToOuter ==
    \A i \in CloseCalls :
        ClosedLayers(calls[i]) = <<"writer", "encoder", "file">>

\* a Close of either writer whose tar writer failed to close and whose
\* encoder and file were closed all the same
C9_Witness ==
    \E i \in CloseCalls :
        /\ calls[i].closes[1].failed
        /\ Len(calls[i].closes) = 3
        /\ tb.encoder = "closed"
        /\ tb.file = "closed"

(***************************************************************************)
(* download: the cache path and the caching fetch.                         *)
(***************************************************************************)
\* Calls of download in one run.
MaxDownloads == 3

\* the characters of the model's addresses that url.QueryEscape escapes;
\* the others are letters, digits, "-", "_", "." and "~"
Escaped == {"/", "+", ":", "%"}

HexOf(c) ==
    CASE c = "/" -> <<"2", "F">>
      [] c = "+" -> <<"2", "B">>
      [] c = ":" -> <<"3", "A">>
      [] c = "%" -> <<"2", "5">>

EscapeChar(c) ==
    IF c = " " THEN <<"+">>
    ELSE IF c \in Escaped THEN <<"%">> \o HexOf(c)
    ELSE <<c>>

\* url.QueryEscape
RECURSIVE QueryEscape(_)
QueryEscape(u) ==
    IF u = <<>> THEN <<>>
    ELSE EscapeChar(Head(u)) \o QueryEscape(Tail(u))

\* filepath.Join(rootDir, "piper-gen.cache", url.QueryEscape(srcURL))
CachePath(rootDir, srcURL) ==
    [dir |-> <<rootDir, "piper-gen.cache">>, base |-> QueryEscape(srcURL)]

NoPath == [dir |-> <<>>, base |-> <<>>]
NoFile == [exists |-> FALSE, data |-> <<>>]
FileOf(data) == [exists |-> TRUE, data |-> data]

RootDir == "root"
URLs == {<<"a", "/", "b">>, <<"a", " ", "b">>, <<"a", "+", "b">>}
Bodies == {<<>>, <<1>>, <<1, 2>>}

\* what the file system and the network do during one download:
\* os.Create, http.Get, the response body, the number of body bytes
\* written when the copy fails (-1: it does not fail), and out.Close
DownloadEnvs ==
    {e \in [create : BOOLEAN, get : BOOLEAN, body : Bodies,
            copyFailAt : -1..2, close : BOOLEAN] :
        e.copyFailAt <= Len(e.body)}

\* os.Stat(filename) succeeds
Stat(c, filename) == filename \in DOMAIN c /\ c[filename].exists

WriteFile(c, filename, f) ==
    [p \in DOMAIN c \cup {filename} |-> IF p = filename THEN f ELSE c[p]]

DownloadResult(c, filename, err, net, stage) ==
    [cache |-> c, filename |-> filename, err |-> err, net |-> net, stage |-> stage]

DownloadMessage == "failed to download"

\* a download that deletes the file it created when the request or the
\* copy fails
DownloadRemovingPartial(c, rootDir, srcURL, env) ==
    LET filename == CachePath(rootDir, srcURL)
        created == WriteFile(c, filename, FileOf(<<>>))
        closeErr == IF env.close THEN NilError ELSE <<"close">>
    IN IF Stat(c, filename)
       THEN DownloadResult(c, filename, NilError, 0, "hit")
       ELSE IF ~env.create
       THEN DownloadResult(c, NoPath,
                           Wrap(DownloadMessage,
                                Wrap(DownloadMessage,
                                     IF env.get THEN <<"ErrInvalid">> ELSE <<"get">>)),
                           1, "create")
       ELSE IF ~env.get
       THEN DownloadResult(c, NoPath,
                           Wrap(DownloadMessage, Wrap(DownloadMessage, <<"get">>)),
                           1, "get")
       ELSE IF env.copyFailAt >= 0
       THEN DownloadResult(c, NoPath,
                           Wrap(DownloadMessage, Wrap(DownloadMessage, <<"copy">>)),
                           1, "copy")
       ELSE DownloadResult(WriteFile(c, filename, FileOf(env.body)), filename,
                           IF closeErr = NilError THEN NilError
                           ELSE Wrap(DownloadMessage, closeErr),
                           1, IF closeErr = NilError THEN "ok" ELSE "close")

\* a download that fetches again when the cached file is empty
DownloadRefetchingEmpty(c, rootDir, srcURL, env) ==
    LET filename == CachePath(rootDir, srcURL)
    IN IF Stat(c, filename) /\ c[filename].data # <<>>
       THEN DownloadResult(c, filename, NilError, 0, "hit")
       ELSE IF env.create /\ env.get /\ env.copyFailAt < 0 /\ env.close
       THEN DownloadResult(WriteFile(c, filename, FileOf(env.body)), filename,
                           NilError, 1, "ok")
       ELSE DownloadResult(IF env.create THEN WriteFile(c, filename, FileOf(<<>>)) ELSE c,
                           NoPath, Wrap(DownloadMessage, <<"io">>), 1, "get")

\* download
Download(c, rootDir, srcURL, env) ==
    LET filename == CachePath(rootDir, srcURL)
        \* os.Create: an empty file, or no file and a nil *os.File
        created == IF env.create THEN WriteFile(c, filename, FileOf(<<>>)) ELSE c
        \* the deferred out.Close(): a nil *os.File fails to close
        closeErr == IF env.create /\ env.close THEN NilError ELSE <<"close">>
        \* io.Copy(out, response.Body): a nil *os.File cannot be written
        copyFails == ~env.create \/ env.copyFailAt >= 0
        copied == IF ~env.create THEN c
                  ELSE IF env.copyFailAt >= 0
                  THEN WriteFile(c, filename, FileOf(SubSeq(env.body, 1, env.copyFailAt)))
                  ELSE WriteFile(c, filename, FileOf(env.body))
    IN IF Stat(c, filename)
       THEN DownloadResult(c, filename, NilError, 0, "hit")
       ELSE IF ~env.get
       THEN DownloadResult(created, NoPath,
                           Wrap(DownloadMessage, Wrap(DownloadMessage, <<"get">>)),
                           1, IF env.create THEN "get" ELSE "create")
       ELSE IF copyFails
       THEN DownloadResult(copied, NoPath,
                           Wrap(DownloadMessage,
                                Wrap(DownloadMessage,
                                     IF env.create THEN <<"copy">> ELSE <<"ErrInvalid">>)),
                           1, IF env.create THEN "copy" ELSE "create")
       ELSE DownloadResult(copied, filename,
                           IF closeErr = NilError THEN NilError
                           ELSE Wrap(DownloadMessage, closeErr),
                           1, IF closeErr = NilError THEN "ok" ELSE "close")

(***************************************************************************)
(* Specification SpecDownload: download is called on a cache directory     *)
(* that starts empty; nothing else touches the directory.                  *)
(***************************************************************************)
IdleArchive ==
    /\ impl = "none"
    /\ tb = NewWriter
    /\ calls = <<>>

InitDownload ==
    /\ cache = [p \in {CachePath(RootDir, u) : u \in URLs} |-> NoFile]
    /\ netCalls = 0
    /\ dlLog = <<>>
    /\ IdleArchive
    /\ IdleMeta
    /\ IdleInstall

FileAt(c, p) == IF p \in DOMAIN c THEN c[p] ELSE NoFile

CallDownload ==
    /\ Len(dlLog) < MaxDownloads
    /\ \E u \in URLs, env \in DownloadEnvs :
          LET r == Download(cache, RootDir, u, env)
              p == CachePath(RootDir, u)
          IN /\ cache' = r.cache
             /\ netCalls' = netCalls + r.net
             /\ dlLog' = Append(dlLog, [url |-> u, filename |-> r.filename,
                                        err |-> r.err, net |-> r.net,
                                        stage |-> r.stage,
                                        before |-> FileAt(cache, p),
                                        after |-> FileAt(r.cache, p)])
    /\ UNCHANGED <<impl, tb, calls, files, distJson, metaCalls, pkgs, runs>>

NextDownload == CallDownload

SpecDownload == InitDownload /\ [][NextDownload]_vars

\* C4: a download that finds a file at the cache path of its address
\* returns that path and nil, issues no request and leaves the file as it
\* was; so after a download that succeeded, a later download of the same
\* address returns the same path without a request.
C4_CacheHitIsIdempotent ==
    /\ \A i \in 1..Len(dlLog) :
          dlLog[i].before.exists =>
              /\ dlLog[i].filename = CachePath(RootDir, dlLog[i].url)
              /\ dlLog[i].err = NilError
              /\ dlLog[i].net = 0
              /\ dlLog[i].after = dlLog[i].before
    /\ \A i \in 1..Len(dlLog) : \A j \in (i + 1)..Len(dlLog) :
          (dlLog[i].url = dlLog[j].url /\ dlLog[i].err = NilError) =>
              /\ dlLog[j].filename = dlLog[i].filename
              /\ dlLog[j].err = NilError
              /\ dlLog[j].net = 0
    /\ netCalls = Cardinality({i \in 1..Len(dlLog) : ~dlLog[i].before.exists})

\* a download that fetched an empty body, then the same address again
C4_Witness ==
    /\ Len(dlLog) >= 2
    /\ dlLog[1].stage = "ok"
    /\ dlLog[1].after = FileOf(<<>>)
    /\ dlLog[2].url = dlLog[1].url
    /\ dlLog[2].stage = "hit"
    /\ netCalls = 1

\* C8: a download that finds no cache file, creates it, and fails in the
\* request or in the copy of the body returns an error and leaves the file
\* on disk; every later download of that address finds it and returns its
\* path and nil without a request.
C8_FailedDownloadLeavesTrustedFile ==
    \A i \in 1..Len(dlLog) :
        (~dlLog[i].before.exists /\ dlLog[i].stage \in {"get", "copy"}) =>
            /\ dlLog[i].err # NilError
            /\ dlLog[i].after.exists
            /\ \A j \in (i + 1)..Len(dlLog) :
                   dlLog[j].url = dlLog[i].url =>
                       /\ dlLog[j].filename = CachePath(RootDir, dlLog[j].url)
                       /\ dlLog[j].err = NilError
                       /\ dlLog[j].net = 0
                       /\ dlLog[j].after = dlLog[i].after

\* a copy that failed after one of two body bytes, then a download of the
\* same address that returned the truncated file
C8_Witness ==
    /\ Len(dlLog) >= 2
    /\ dlLog[1].stage = "copy"
    /\ dlLog[1].after = FileOf(<<1>>)
    /\ dlLog[2].url = dlLog[1].url
    /\ dlLog[2].stage = "hit"
    /\ dlLog[2].err = NilError

(***************************************************************************)
(* installMeta: the fingerprint over a list of files and the metadata      *)
(* record.  The xxh3 digest is identified with the byte stream that was    *)
(* written into the hash: two digests are equal when the streams are.      *)
(***************************************************************************)
CharCode(c) ==
    CASE c = "." -> 46
      [] c = "a" -> 97
      [] c = "b" -> 98
      [] c = "c" -> 99

\* Go's string order s < t: byte-wise, a proper prefix first
RECURSIVE StringLess(_, _)
StringLess(s, t) ==
    IF t = <<>> THEN FALSE
    ELSE IF s = <<>> THEN TRUE
    ELSE IF Head(s) = Head(t) THEN StringLess(Tail(s), Tail(t))
    ELSE CharCode(Head(s)) < CharCode(Head(t))

RECURSIVE InsertSorted(_, _)
InsertSorted(x, sorted) ==
    IF sorted = <<>> THEN <<x>>
    ELSE IF StringLess(x, Head(sorted)) THEN <<x>> \o sorted
    ELSE <<Head(sorted)>> \o InsertSorted(x, Tail(sorted))

\* sort.Strings
RECURSIVE SortStrings(_)
SortStrings(names) ==
    IF names = <<>> THEN <<>>
    ELSE InsertSorted(Head(names), SortStrings(Tail(names)))

\* xxh3.New()
NewHash == <<>>

\* hashFile: io.Copy(h, f) of the whole file, or the error of os.Open
HashFile(h, fs, filename) ==
    IF filename \in DOMAIN fs /\ fs[filename].exists
    THEN [h |-> h \o fs[filename].data, err |-> NilError]
    ELSE [h |-> h, err |-> <<"open">>]

\* h.Sum128()
Sum128(h) == h

\* the loop of installMeta over the filenames, stopping at the first error
RECURSIVE HashFiles(_, _, _)
HashFiles(h, fs, names) ==
    IF names = <<>> THEN [h |-> h, err |-> NilError]
    ELSE LET r == HashFile(h, fs, Head(names))
         IN IF r.err # NilError
            THEN [h |-> r.h, err |-> Wrap("failed to hash file", r.err)]
            ELSE HashFiles(r.h, fs, Tail(names))

NoMeta == [exists |-> FALSE, Version |-> "", Hash |-> <<>>]

\* an installMeta that hashes the files in the order the caller gave
InstallMetaUnsorted(fs, old, version, filenames, writeOK) ==
    LET r == HashFiles(NewHash, fs, filenames)
    IN IF r.err # NilError
       THEN [caller |-> filenames, meta |-> old, hash |-> <<>>, err |-> r.err]
       ELSE IF ~writeOK
       THEN [caller |-> filenames, meta |-> old, hash |-> Sum128(r.h),
             err |-> <<"failed to write metadata", "io">>]
       ELSE [caller |-> filenames,
             meta |-> [exists |-> TRUE, Version |-> version, Hash |-> Sum128(r.h)],
             hash |-> Sum128(r.h), err |-> NilError]

\* installMeta.  caller is the caller's slice after the call: the sort
\* works on a copy.  old is dist.json before the call.
InstallMeta(fs, old, version, filenames, writeOK) ==
    LET sorted == SortStrings(filenames)
        r == HashFiles(NewHash, fs, sorted)
    IN IF r.err # NilError
       THEN [caller |-> filenames, meta |-> old, hash |-> <<>>, err |-> r.err]
       ELSE IF ~writeOK
       THEN [caller |-> filenames, meta |-> old, hash |-> Sum128(r.h),
             err |-> <<"failed to write metadata", "io">>]
       ELSE [caller |-> filenames,
             meta |-> [exists |-> TRUE, Version |-> version, Hash |-> Sum128(r.h)],
             hash |-> Sum128(r.h), err |-> NilError]

(***************************************************************************)
(* Specification SpecMeta: installMeta is called with lists of filenames   *)
(* over a fixed set of files, one of which may be missing.                 *)
(***************************************************************************)
MetaNames == {<<"b">>, <<"a", "b">>}
MetaLists == SeqsUpTo(MetaNames, MaxFiles)

InitMeta ==
    /\ files \in [MetaNames -> {NoFile, FileOf(<<1>>), FileOf(<<2, 1>>)}]
    /\ distJson = NoMeta
    /\ metaCalls = <<>>
    /\ IdleArchive
    /\ IdleDownload
    /\ IdleInstall

LastTwo(log) == IF Len(log) > 2 THEN Tail(log) ELSE log

CallInstallMeta ==
    /\ \E filenames \in MetaLists, writeOK \in BOOLEAN :
          LET r == InstallMeta(files, distJson, "v1", filenames, writeOK)
          IN /\ distJson' = r.meta
             /\ metaCalls' = LastTwo(Append(metaCalls,
                                  [args |-> filenames, caller |-> r.caller,
                                   hash |-> r.hash, err |-> r.err, meta |-> r.meta]))
    /\ UNCHANGED <<impl, tb, calls, cache, netCalls, dlLog, files, pkgs, runs>>

NextMeta == CallInstallMeta

SpecMeta == InitMeta /\ [][NextMeta]_vars

Count(x, q) == Cardinality({i \in 1..Len(q) : q[i] = x})

IsPermutation(p, q) ==
    /\ Len(p) = Len(q)
    /\ \A x \in Range(p) \cup Range(q) : Count(x, p) = Count(x, q)

IsSortedStrings(q) == \A i \in 1..(Len(q) - 1) : ~StringLess(q[i + 1], q[i])

RECURSIVE Concat(_, _)
Concat(fs, names) ==
    IF names = <<>> THEN <<>> ELSE fs[Head(names)].data \o Concat(fs, Tail(names))

\* C5: two installMeta calls whose lists are permutations of one another
\* and whose files are all readable produce the same fingerprint; the
\* fingerprint is that of the files' contents streamed in lexicographically
\* sorted filename order; and the caller's list is left in the order given.
C5_FingerprintOrderIndependent ==
    /\ \A i, j \in 1..Len(metaCalls) :
          (/\ IsPermutation(metaCalls[i].args, metaCalls[j].args)
           /\ metaCalls[i].err = NilError
           /\ metaCalls[j].err = NilError)
          => metaCalls[i].hash = metaCalls[j].hash
    /\ \A i \in 1..Len(metaCalls) :
          /\ metaCalls[i].caller = metaCalls[i].args
          /\ metaCalls[i].err = NilError =>
                \E q \in MetaLists :
                    /\ IsPermutation(q, metaCalls[i].args)
                    /\ IsSortedStrings(q)
                    /\ metaCalls[i].hash = Concat(files, q)

\* two calls on the two orders of a list of two files with different
\* contents, the first given in descending order
C5_Witness ==
    /\ Len(metaCalls) = 2
    /\ metaCalls[1].args = <<<<"b">>, <<"a", "b">>>>
    /\ metaCalls[2].args = <<<<"a", "b">>, <<"b">>>>
    /\ files[<<"b">>].data # files[<<"a", "b">>].data
    /\ metaCalls[1].err = NilError
    /\ metaCalls[2].err = NilError
    /\ distJson.exists

(***************************************************************************)
(* The install operations.  env is what the file system, the network and   *)
(* the build tools do during one run: the set of steps that fail (a fault  *)
(* point names the step, its position, and the part that fails) and the    *)
(* body the server returns.                                                *)
(***************************************************************************)
ArchiveFilename == "dist.tzst"
MetadataFilename == "dist.json"

Fails(env, step, i, part) == <<step, i, part>> \in env.faults

FaultPlans(points) ==
    {{}} \cup {{x} : x \in points} \cup {{x, y} : x, y \in points}

Ev(step, ok) == [step |-> step, ok |-> ok]

\* the package directory before dist.tzst is created in it
NoTarball == [NewWriter EXCEPT !.file = "none"]

NewPackage ==
    [tarball |-> NoTarball, scaffold |-> {}, meta |-> NoMeta,
     modelCard |-> NoFile, built |-> FALSE]

InstallResult(c, net, pkg, err, events, src) ==
    [cache |-> c, net |-> net, pkg |-> pkg, err |-> err, events |-> events, src |-> src]

\* the outcomes of the steps of the i-th download of a run
EnvOfDownload(env, i, body) ==
    [create |-> ~Fails(env, "create", i, ""),
     get |-> ~Fails(env, "get", i, ""),
     body |-> body,
     copyFailAt |-> IF Fails(env, "copy", i, "") THEN 0 ELSE -1,
     close |-> ~Fails(env, "dlclose", i, "")]

AppendFaultOf(env, k) ==
    IF Fails(env, "append", k, "header") THEN "header"
    ELSE IF Fails(env, "append", k, "copy") THEN "copy"
    ELSE IF Fails(env, "append", k, "flush") THEN "flush"
    ELSE "none"

CloseFailsOf(env) == {l \in Layers : Fails(env, "close", 0, l)}

\* newTarball: os.Create truncates dist.tzst
NewTarball(pkg, env) ==
    IF Fails(env, "newTarball", 0, "")
    THEN [pkg |-> pkg, err |-> <<"failed to create file">>]
    ELSE [pkg |-> [pkg EXCEPT !.tarball = NewWriter], err |-> NilError]

ScaffoldFiles == <<"embed.go", "go.mod", "README.md", "LICENSE">>

\* the four os.WriteFile calls of generatePackage, stopping at the first error
RECURSIVE WriteScaffold(_, _, _)
WriteScaffold(written, k, env) ==
    IF k > Len(ScaffoldFiles) THEN [written |-> written, err |-> NilError]
    ELSE IF Fails(env, "write", k, "") THEN [written |-> written, err |-> <<"write">>]
    ELSE WriteScaffold(written \cup {ScaffoldFiles[k]}, k + 1, env)

\* generatePackage once installMeta has returned: `go mod tidy`, `go build`
GenerateAfterMeta(pkg, env, m) ==
    IF m.err # NilError
    THEN [pkg |-> pkg, err |-> m.err,
          events |-> <<Ev("scaffold", TRUE), Ev("meta", FALSE)>>]
    ELSE IF Fails(env, "run", 1, "")
    THEN [pkg |-> [pkg EXCEPT !.meta = m.meta], err |-> <<"failed to run", "go mod tidy">>,
          events |-> <<Ev("scaffold", TRUE), Ev("meta", TRUE), Ev("tidy", FALSE)>>]
    ELSE IF Fails(env, "run", 2, "")
    THEN [pkg |-> [pkg EXCEPT !.meta = m.meta], err |-> <<"failed to run", "go build">>,
          events |-> <<Ev("scaffold", TRUE), Ev("meta", TRUE), Ev("tidy", TRUE),
                       Ev("build", FALSE)>>]
    ELSE [pkg |-> [pkg EXCEPT !.meta = m.meta, !.built = TRUE], err |-> NilError,
          events |-> <<Ev("scaffold", TRUE), Ev("meta", TRUE), Ev("tidy", TRUE),
                       Ev("build", TRUE)>>]

\* the file installMeta hashes: dist.tzst as the closed writer left it
ArchiveFS(pkg, env) ==
    IF Fails(env, "hash", 0, "") THEN <<>>
    ELSE (ArchiveFilename :> FileOf(pkg.tarball.writer.out))

\* generatePackage once the scaffold files are written: installMeta over
\* dist.tzst
GenerateAfterScaffold(pkg, version, env, w) ==
    IF w.err # NilError
    THEN [pkg |-> [pkg EXCEPT !.scaffold = w.written], err |-> w.err,
          events |-> <<Ev("scaffold", FALSE)>>]
    ELSE GenerateAfterMeta([pkg EXCEPT !.scaffold = w.written], env,
                           InstallMeta(ArchiveFS(pkg, env), pkg.meta, version,
                                       <<ArchiveFilename>>, ~Fails(env, "meta", 0, "")))

\* generatePackage: the scaffold files, installMeta over dist.tzst, then
\* `go mod tidy` and `go build`
GeneratePackage(pkg, version, env) ==
    GenerateAfterScaffold(pkg, version, env, WriteScaffold(pkg.scaffold, 1, env))

(***************************************************************************)
(* installPiper: the downloaded archive is identified, and its entries     *)
(* under "piper" are repackaged into dist.tzst.  A downloaded file is a    *)
(* sequence of records: the format's magic, then the entries.              *)
(***************************************************************************)
Magic(format) ==
    [NameInArchive |-> <<format>>, Mode |-> [typ |-> "magic", perm |-> 0],
     Size |-> 0, LinkTarget |-> <<>>, Content |-> <<>>]

SrcEntry(name, typ, perm, content, target) ==
    [NameInArchive |-> name, Mode |-> [typ |-> typ, perm |-> perm],
     Size |-> Len(content), LinkTarget |-> target, Content |-> content]

\* archiver.Identify: the format of the file, and the stream after it
Identify(data) ==
    IF data # <<>> /\ Head(data).Mode.typ = "magic"
                   /\ Head(data).NameInArchive \in {<<"tar">>, <<"gz">>}
    THEN [format |-> Head(data).NameInArchive[1], stream |-> Tail(data), err |-> NilError]
    ELSE [format |-> "", stream |-> <<>>, err |-> <<"no formats matched">>]

\* format.(archiver.Extractor)
IsExtractor(format) == format = "tar"

PiperFilter == <<"p", "i", "p", "e", "r">>
PiperPrefix == <<"p", "i", "p", "e", "r", "/">>

\* the path filter of Extract: the path itself, or a path under it
FileIsIncluded(fn, filename) ==
    \/ filename = fn
    \/ HasPrefix(filename, fn \o <<"/">>)

\* an entry filter that keeps regular files only
SkipsEntryUnlessRegular(f) == ~IsRegular(f.Mode)

\* the callback's first test: neither a regular file nor a symbolic link
SkipsEntry(f) == ~IsRegular(f.Mode) /\ ~IsSymlinkMode(f.Mode)

\* the header the callback builds for an entry
RepackageHeader(f) ==
    [Name |-> TrimPrefix(f.NameInArchive, PiperPrefix),
     Mode |-> Int64OfMode(f.Mode),
     Size |-> f.Size,
     Linkname |-> f.LinkTarget,
     Typeflag |-> IF IsSymlinkMode(f.Mode) THEN TypeSymlink ELSE TypeRegA]

\* what the callback returns after tarball.Append
AppendedEntry(a) == [tb |-> a.tb, err |-> a.err, step |-> "append"]

\* the callback handed to Extract, on the k-th entry of the source
RepackageEntry(t, f, k, env) ==
    IF SkipsEntry(f) THEN [tb |-> t, err |-> NilError, step |-> "skip"]
    ELSE IF Fails(env, "entryOpen", k, "")
    THEN [tb |-> t, err |-> <<"open">>, step |-> "append"]
    ELSE AppendedEntry(TarballAppend(t, RepackageHeader(f), f.Content,
                                     AppendFaultOf(env, k)))

\* extractor.Extract: the callback on every included entry in source
\* order, ending at the first error of the source or of the callback
RECURSIVE Extract(_, _, _, _, _)
RECURSIVE ExtractAfterEntry(_, _, _, _, _)
Extract(t, stream, k, env, events) ==
    IF k > Len(stream) THEN [tb |-> t, err |-> NilError, events |-> events]
    ELSE IF Fails(env, "read", k, "")
    THEN [tb |-> t, err |-> <<"read">>, events |-> Append(events, Ev("read", FALSE))]
    ELSE IF ~FileIsIncluded(PiperFilter, stream[k].NameInArchive)
    THEN Extract(t, stream, k + 1, env, events)
    ELSE ExtractAfterEntry(stream, k, env, events, RepackageEntry(t, stream[k], k, env))

\* Extract once the callback has returned r for the k-th entry
ExtractAfterEntry(stream, k, env, events, r) ==
    IF r.err # NilError
    THEN [tb |-> r.tb, err |-> Wrap("handling file", r.err),
          events |-> Append(events, Ev(r.step, FALSE))]
    ELSE Extract(r.tb, stream, k + 1, env, Append(events, Ev(r.step, TRUE)))

\* an installPiper that goes on to generate the package when only the
\* close of the tarball failed
PiperExtractErrorIgnoringClose(extractErr, closeErr) ==
    IF extractErr # NilError THEN Wrap("failed to extract piper", extractErr)
    ELSE NilError

\* the error installPiper returns after Extract and Close, nil to go on
PiperExtractError(extractErr, closeErr) ==
    IF closeErr # NilError /\ extractErr = NilError
    THEN Wrap("failed to close tarball", closeErr)
    ELSE IF extractErr # NilError THEN Wrap("failed to extract piper", extractErr)
    ELSE NilError

\* installPiper once generatePackage has returned
PiperGenerated(c, net, stream, events, g) ==
    InstallResult(c, net, g.pkg,
                  IF g.err = NilError THEN NilError
                  ELSE Wrap("failed to generate package", g.err),
                  events \o g.events, stream)

\* installPiper once Extract has returned x and tarball.Close has returned cl
PiperClosed(c, net, pkg, version, stream, env, events, extractErr, cl) ==
    IF PiperExtractError(extractErr, cl.err) # NilError
    THEN InstallResult(c, net, [pkg EXCEPT !.tarball = cl.tb],
                       PiperExtractError(extractErr, cl.err),
                       Append(events, Ev("close", cl.err = NilError)), stream)
    ELSE PiperGenerated(c, net, stream, Append(events, Ev("close", cl.err = NilError)),
                        GeneratePackage([pkg EXCEPT !.tarball = cl.tb], version, env))

\* installPiper once Extract has returned: the tarball is closed
PiperExtracted(c, net, pkg, version, stream, env, events, x) ==
    PiperClosed(c, net, pkg, version, stream, env, events \o x.events, x.err,
                TarballClose(x.tb, CloseFailsOf(env)))

\* installPiper once newTarball has returned
PiperTarballCreated(c, net, pkg, version, stream, env, events, nt) ==
    IF nt.err # NilError
    THEN InstallResult(c, net, pkg, Wrap("failed to create tarball", nt.err),
                       Append(events, Ev("newTarball", FALSE)), stream)
    ELSE PiperExtracted(c, net, nt.pkg, version, stream, env,
                        Append(events, Ev("newTarball", TRUE)),
                        Extract(nt.pkg.tarball, stream, 1, env, <<>>))

\* installPiper from newTarball on
RepackageAndGenerate(c, net, pkg, version, stream, env, events) ==
    PiperTarballCreated(c, net, pkg, version, stream, env, events, NewTarball(pkg, env))

\* installPiper once archiver.Identify has returned
PiperIdentified(c, net, pkg, version, env, id) ==
    IF id.err # NilError
    THEN InstallResult(c, net, pkg, Wrap("could not identify", id.err),
                       <<Ev("download", TRUE), Ev("open", TRUE), Ev("identify", FALSE)>>,
                       <<>>)
    ELSE IF ~IsExtractor(id.format)
    THEN InstallResult(c, net, pkg, <<"is not an archiver.Extractor">>,
                       <<Ev("download", TRUE), Ev("open", TRUE), Ev("identify", TRUE),
                         Ev("extractor", FALSE)>>,
                       <<>>)
    ELSE RepackageAndGenerate(c, net, pkg, version, id.stream, env,
                              <<Ev("download", TRUE), Ev("open", TRUE),
                                Ev("identify", TRUE), Ev("extractor", TRUE)>>)

\* installPiper once download has returned
PiperDownloaded(pkg, version, env, d) ==
    IF d.err # NilError
    THEN InstallResult(d.cache, d.net, pkg, Wrap("failed to download piper", d.err),
                       <<Ev("download", FALSE)>>, <<>>)
    ELSE IF Fails(env, "open", 0, "")
    THEN InstallResult(d.cache, d.net, pkg, <<"failed to open">>,
                       <<Ev("download", TRUE), Ev("open", FALSE)>>, <<>>)
    ELSE PiperIdentified(d.cache, d.net, pkg, version, env,
                         Identify(d.cache[d.filename].data))

\* installPiper
InstallPiper(c, pkg, rootDir, version, url, env) ==
    PiperDownloaded(pkg, version, env,
                    Download(c, rootDir, url, EnvOfDownload(env, 1, env.body)))

(***************************************************************************)
(* installVoice: every address of the voice is downloaded and appended to  *)
(* dist.tzst under its package name; MODEL_CARD is copied beside it.       *)
(***************************************************************************)
ModelCardName == <<"M", "O", "D", "E", "L", "_", "C", "A", "R", "D">>
OnnxExt == <<".", "o", "n", "n", "x">>
JsonExt == <<".", "j", "s", "o", "n">>
VoiceOnnx == <<"v", "o", "i", "c", "e">> \o OnnxExt
VoiceJson == <<"v", "o", "i", "c", "e">> \o JsonExt

\* strings.LastIndex for a single character: 0 when it does not occur
RECURSIVE LastIndex(_, _)
LastIndex(str, ch) ==
    IF str = <<>> THEN 0
    ELSE IF str[Len(str)] = ch THEN Len(str)
    ELSE LastIndex(SubSeq(str, 1, Len(str) - 1), ch)

\* filepath.Base of an address that does not end in a slash
Base(path) == SubSeq(path, LastIndex(path, "/") + 1, Len(path))

\* filepath.Ext: from the last dot of the last element
Ext(path) ==
    LET b == Base(path)
    IN IF LastIndex(b, ".") = 0 THEN <<>> ELSE SubSeq(b, LastIndex(b, "."), Len(b))

\* the switch of installVoice: the name of the entry, <<>> for an address
\* with an unexpected extension
VoiceEntryName(url) ==
    IF Base(url) = ModelCardName THEN Base(url)
    ELSE IF Ext(Base(url)) = OnnxExt THEN VoiceOnnx
    ELSE IF Ext(Base(url)) = JsonExt THEN VoiceJson
    ELSE <<>>

\* the cache directory as AppendFile sees it: os.Create made regular files
FsOfCache(c) ==
    [q \in {x \in DOMAIN c : c[x].exists} |-> RegFile(420, c[q].data)]

OnnxURL == <<"j", "/", "m">> \o OnnxExt
JsonURL == <<"j", "/", "m">> \o OnnxExt \o JsonExt
CardURL == <<"j", "/">> \o ModelCardName
TextURL == <<"j", "/", "r", ".", "t", "x", "t">>

\* what the server returns for an address of a voice
VoiceBody(url) ==
    IF url = OnnxURL THEN <<1, 2>>
    ELSE IF url = JsonURL THEN <<2>>
    ELSE <<1>>

\* the loop of installVoice from the i-th address on; st is the cache, the
\* tarball and modelFilename so far
RECURSIVE AppendVoiceFiles(_, _, _, _, _)
RECURSIVE VoiceFileAppended(_, _, _, _, _, _, _)
RECURSIVE VoiceFileDownloaded(_, _, _, _, _, _)
AppendVoiceFiles(st, rootDir, urls, i, env) ==
    IF i > Len(urls) THEN [st |-> st, err |-> NilError]
    ELSE IF VoiceEntryName(urls[i]) = <<>>
    THEN [st |-> [st EXCEPT !.events = Append(@, Ev("extension", FALSE))],
          err |-> <<"encountered unexpected file extension">>]
    ELSE VoiceFileDownloaded(st, rootDir, urls, i, env,
                             Download(st.cache, rootDir, urls[i],
                                      EnvOfDownload(env, i, VoiceBody(urls[i]))))

\* the loop once download has returned d for the i-th address
VoiceFileDownloaded(st, rootDir, urls, i, env, d) ==
    IF d.err # NilError
    THEN [st |-> [st EXCEPT !.cache = d.cache, !.net = @ + d.net,
                            !.events = Append(@, Ev("download", FALSE))],
          err |-> Wrap("failed to download voice", d.err)]
    ELSE VoiceFileAppended([st EXCEPT !.cache = d.cache, !.net = @ + d.net,
                                      !.events = Append(@, Ev("download", TRUE))],
                           rootDir, urls, i, env, d.filename,
                           TarballAppendFile(st.tb, FsOfCache(d.cache),
                                             VoiceEntryName(urls[i]), d.filename,
                                             AppendFaultOf(env, i)))

\* the loop once tarball.AppendFile has returned a for the i-th address
VoiceFileAppended(st, rootDir, urls, i, env, filename, a) ==
    IF a.err # NilError
    THEN [st |-> [st EXCEPT !.tb = a.tb, !.events = Append(@, Ev("append", FALSE))],
          err |-> Wrap("failed to add to tarball", a.err)]
    ELSE AppendVoiceFiles([st EXCEPT !.tb = a.tb,
                                     !.events = Append(@, Ev("append", TRUE)),
                                     !.modelFilename =
                                         IF VoiceEntryName(urls[i]) = ModelCardName
                                         THEN filename ELSE @],
                          rootDir, urls, i + 1, env)

\* copyFile(dest, src) into the package directory
CopyFile(c, src, env) ==
    IF ~Stat(c, src) THEN [file |-> NoFile, err |-> <<"failed to open">>]
    ELSE IF Fails(env, "copyFile", 0, "create")
    THEN [file |-> NoFile, err |-> <<"failed to create">>]
    ELSE IF Fails(env, "copyFile", 0, "copy")
    THEN [file |-> FileOf(<<>>), err |-> <<"failed to copy">>]
    ELSE IF Fails(env, "copyFile", 0, "close")
    THEN [file |-> FileOf(c[src].data), err |-> <<"failed to close">>]
    ELSE [file |-> FileOf(c[src].data), err |-> NilError]

\* the error installVoice returns after Close, nil to go on
VoiceCloseError(closeErr) ==
    IF closeErr # NilError THEN Wrap("failed to close tarball", closeErr) ELSE NilError

\* installVoice once generatePackage has returned
VoiceGenerated(st, events, g) ==
    InstallResult(st.cache, st.net, g.pkg,
                  IF g.err = NilError THEN NilError
                  ELSE Wrap("failed to generate package", g.err),
                  events \o g.events, <<>>)

\* installVoice once copyFile has returned
VoiceCardCopied(st, pkg, version, env, events, cf) ==
    IF cf.err # NilError
    THEN InstallResult(st.cache, st.net, [pkg EXCEPT !.modelCard = cf.file],
                       Wrap("failed to copy MODEL_CARD.txt into package", cf.err),
                       Append(events, Ev("copyFile", FALSE)), <<>>)
    ELSE VoiceGenerated(st, Append(events, Ev("copyFile", TRUE)),
                        GeneratePackage([pkg EXCEPT !.modelCard = cf.file], version, env))

\* installVoice once tarball.Close has returned
VoiceClosed(st, pkg, version, env, cl) ==
    IF VoiceCloseError(cl.err) # NilError
    THEN InstallResult(st.cache, st.net, [pkg EXCEPT !.tarball = cl.tb],
                       VoiceCloseError(cl.err),
                       Append(st.events, Ev("close", FALSE)), <<>>)
    ELSE VoiceCardCopied(st, [pkg EXCEPT !.tarball = cl.tb], version, env,
                         Append(st.events, Ev("close", TRUE)),
                         CopyFile(st.cache, st.modelFilename, env))

\* installVoice once the loop over the addresses has ended
VoiceFilesAppended(pkg, version, env, l) ==
    IF l.err # NilError
    THEN InstallResult(l.st.cache, l.st.net, [pkg EXCEPT !.tarball = l.st.tb],
                       l.err, l.st.events, <<>>)
    ELSE VoiceClosed(l.st, pkg, version, env, TarballClose(l.st.tb, CloseFailsOf(env)))

\* installVoice once newTarball has returned
VoiceTarballCreated(c, pkg, rootDir, version, urls, env, nt) ==
    IF nt.err # NilError
    THEN InstallResult(c, 0, pkg, Wrap("failed to create tarball", nt.err),
                       <<Ev("newTarball", FALSE)>>, <<>>)
    ELSE VoiceFilesAppended(nt.pkg, version, env,
                            AppendVoiceFiles([cache |-> c, net |-> 0,
                                              tb |-> nt.pkg.tarball,
                                              modelFilename |-> NoPath,
                                              events |-> <<Ev("newTarball", TRUE)>>],
                                             rootDir, urls, 1, env))

\* installVoice
InstallVoice(c, pkg, rootDir, version, urls, env) ==
    VoiceTarballCreated(c, pkg, rootDir, version, urls, env, NewTarball(pkg, env))

(***************************************************************************)
(* One install run on a cache directory and a package directory that may   *)
(* hold what an earlier run left: a cache file (empty or complete) and a   *)
(* dist.json of an older version.                                          *)
(***************************************************************************)
PiperURL == <<"h", "/", "p">>
Version == "v1"
StaleMeta == [exists |-> TRUE, Version |-> "v0", Hash |-> <<>>]

PiperBin == SrcEntry(PiperPrefix \o <<"p">>, "reg", 493, <<1, 2>>, <<>>)
PiperLib == SrcEntry(PiperPrefix \o <<"s">>, "reg", 420, <<2>>, <<>>)
PiperLink == SrcEntry(PiperPrefix \o <<"l">>, "symlink", 511, <<>>, <<"s">>)
PiperDir == SrcEntry(PiperPrefix, "dir", 493, <<>>, <<>>)
PiperDev == SrcEntry(PiperPrefix \o <<"d">>, "device", 420, <<>>, <<>>)
OtherFile == SrcEntry(<<"o", "/", "s">>, "reg", 420, <<1>>, <<>>)
PiperFile == SrcEntry(PiperFilter, "reg", 420, <<1>>, <<>>)

\* what the server returns for the piper address
PiperBodies ==
    {<<Magic("tar"), PiperDir, PiperBin, OtherFile, PiperLink, PiperDev>>,
     <<Magic("tar"), PiperLink, PiperLib, PiperBin>>,
     <<Magic("tar"), PiperFile, OtherFile>>,
     <<Magic("tar")>>,
     <<Magic("gz"), PiperBin>>,
     <<Magic("junk")>>,
     <<>>}

VoiceURLLists ==
    {<<OnnxURL, JsonURL, CardURL>>,
     <<CardURL, OnnxURL>>,
     <<OnnxURL, JsonURL>>,
     <<OnnxURL, TextURL, CardURL>>}

AppendParts == {"header", "copy", "flush"}

CommonFaults ==
    {<<"newTarball", 0, "">>, <<"hash", 0, "">>, <<"meta", 0, "">>}
    \cup {<<"close", 0, l>> : l \in Layers}
    \cup {<<"write", k, "">> : k \in 1..Len(ScaffoldFiles)}
    \cup {<<"run", k, "">> : k \in 1..2}

DownloadFaults(n) ==
    {<<s, i, "">> : s \in {"create", "get", "copy", "dlclose"}, i \in 1..n}

PiperFaults ==
    CommonFaults \cup DownloadFaults(1) \cup {<<"open", 0, "">>}
    \cup {<<"read", k, "">> : k \in 1..3}
    \cup {<<"entryOpen", k, "">> : k \in 2..3}
    \cup {<<"append", k, part>> : k \in 2..3, part \in AppendParts}

VoiceFaults ==
    CommonFaults \cup DownloadFaults(2)
    \cup {<<"append", k, part>> : k \in 1..2, part \in AppendParts}
    \cup {<<"copyFile", 0, part>> : part \in {"create", "copy", "close"}}

PiperEnvs == [faults : FaultPlans(PiperFaults), body : PiperBodies]
VoiceEnvs == [faults : FaultPlans(VoiceFaults), body : {<<>>}]

InitInstall ==
    /\ \E leftPiper \in {NoFile, FileOf(<<>>)} \cup {FileOf(b) : b \in PiperBodies},
          leftCard \in {NoFile, FileOf(<<>>)} :
          cache = [p \in {CachePath(RootDir, u) :
                            u \in {PiperURL, OnnxURL, JsonURL, CardURL, TextURL}} |->
                      IF p = CachePath(RootDir, PiperURL) THEN leftPiper
                      ELSE IF p = CachePath(RootDir, CardURL) THEN leftCard
                      ELSE NoFile]
    /\ \E old \in {NoMeta, StaleMeta} :
          pkgs = [kind \in {"piper", "voice"} |-> [NewPackage EXCEPT !.meta = old]]
    /\ netCalls = 0
    /\ runs = <<>>
    /\ dlLog = <<>>
    /\ IdleArchive
    /\ IdleMeta

Run(kind, urls, r, before) ==
    [kind |-> kind, urls |-> urls, err |-> r.err, events |-> r.events,
     src |-> r.src, net |-> r.net, before |-> before]

CallInstallPiper ==
    /\ runs = <<>>
    /\ \E env \in PiperEnvs :
          LET r == InstallPiper(cache, pkgs["piper"], RootDir, Version, PiperURL, env)
          IN /\ cache' = r.cache
             /\ netCalls' = netCalls + r.net
             /\ pkgs' = [pkgs EXCEPT !["piper"] = r.pkg]
             /\ runs' = <<Run("piper", <<PiperURL>>, r, pkgs["piper"])>>
    /\ UNCHANGED <<impl, tb, calls, dlLog, files, distJson, metaCalls>>

CallInstallVoice ==
    /\ runs = <<>>
    /\ \E env \in VoiceEnvs, urls \in VoiceURLLists :
          LET r == InstallVoice(cache, pkgs["voice"], RootDir, Version, urls, env)
          IN /\ cache' = r.cache
             /\ netCalls' = netCalls + r.net
             /\ pkgs' = [pkgs EXCEPT !["voice"] = r.pkg]
             /\ runs' = <<Run("voice", urls, r, pkgs["voice"])>>
    /\ UNCHANGED <<impl, tb, calls, dlLog, files, distJson, metaCalls>>

NextInstall == CallInstallPiper \/ CallInstallVoice

SpecInstall == InitInstall /\ [][NextInstall]_vars

(***************************************************************************)
(* Properties of the install operations                                    *)
(***************************************************************************)
PiperRuns == {i \in 1..Len(runs) : runs[i].kind = "piper"}

EventAt(r, step, ok) == {i \in 1..Len(r.events) : r.events[i] = Ev(step, ok)}

\* Extract and the Close after it both returned nil
Repackaged(r) ==
    \E i \in EventAt(r, "close", TRUE) : \A j \in 1..i : r.events[j].ok

MatchesFilter(f) ==
    \/ f.NameInArchive = PiperFilter
    \/ HasPrefix(f.NameInArchive, PiperPrefix)

IsFileOrLink(f) == f.Mode.typ \in {"reg", "symlink"}

KeptEntry(f) == MatchesFilter(f) /\ IsFileOrLink(f)

ExpectedEntry(f) ==
    [Name |-> IF HasPrefix(f.NameInArchive, PiperPrefix)
              THEN SubSeq(f.NameInArchive, Len(PiperPrefix) + 1, Len(f.NameInArchive))
              ELSE f.NameInArchive,
     Mode |-> f.Mode.perm + (IF f.Mode.typ = "symlink" THEN ModeSymlinkBit ELSE 0),
     Size |-> f.Size, Linkname |-> f.LinkTarget, Content |-> f.Content]

ExpectedEntries(src) ==
    LET kept == SelectSeq(src, KeptEntry)
    IN [i \in 1..Len(kept) |-> ExpectedEntry(kept[i])]

\* C6: when the repackage step of installPiper has run to the end, reading
\* dist.tzst yields exactly one entry for each source entry that is under
\* the path filter and is a regular file or a symbolic link, in source
\* order, named by the source path without the "piper/" prefix, with the
\* source's mode, size, link target and content; directories, devices and
\* entries outside the filter leave no entry.
C6_SelectiveRepackage ==
    \A i \in PiperRuns :
        Repackaged(runs[i]) =>
            ReadArchive(pkgs["piper"].tarball.writer.out)
                = [entries |-> ExpectedEntries(runs[i].src), err |-> ""]

\* a source with a directory, a file, a file outside the filter, a
\* symbolic link and a device was repackaged into two entries
C6_Witness ==
    \E i \in PiperRuns :
        /\ Repackaged(runs[i])
        /\ \E k \in 1..Len(runs[i].src) : runs[i].src[k].Mode.typ = "dir"
        /\ \E k \in 1..Len(runs[i].src) : runs[i].src[k].Mode.typ = "device"
        /\ \E k \in 1..Len(runs[i].src) : ~MatchesFilter(runs[i].src[k])
        /\ \E k \in 1..Len(runs[i].src) : runs[i].src[k].Mode.typ = "symlink"
        /\ Len(ReadArchive(pkgs["piper"].tarball.writer.out).entries) = 2

GenerationSteps == {"scaffold", "meta", "tidy", "build"}
AbortingSteps == {"download", "identify", "extractor", "append", "close"}

\* the number of Append/AppendFile calls a complete run makes
AppendsOf(r) ==
    IF r.kind = "voice" THEN Len(r.urls) ELSE Len(SelectSeq(r.src, KeptEntry))

Untouched(r) ==
    /\ pkgs[r.kind].meta = r.before.meta
    /\ pkgs[r.kind].scaffold = r.before.scaffold
    /\ pkgs[r.kind].built = r.before.built

\* C10: in a run of installVoice or installPiper, dist.json is written only
\* after every download and every append of the run returned nil and Close
\* closed all three layers without a failure; and when a download, the
\* identification of the format, the extractor test, an append or Close
\* fails, the run returns an error, generates nothing and leaves dist.json
\* as it was.
C10_MetadataOnlyAfterCompleteArchive ==
    \A i \in 1..Len(runs) :
        LET r == runs[i]
        IN /\ \A m \in 1..Len(r.events) :
                  r.events[m].step = "meta" =>
                      /\ \A j \in 1..(m - 1) : r.events[j].ok
                      /\ Cardinality({j \in 1..(m - 1) : r.events[j].step = "download"})
                             = Len(r.urls)
                      /\ Cardinality({j \in 1..(m - 1) : r.events[j].step = "append"})
                             = AppendsOf(r)
                      /\ \E j \in 1..(m - 1) : r.events[j] = Ev("close", TRUE)
                      /\ ClosedLayers(pkgs[r.kind].tarball) = <<"writer", "encoder", "file">>
                      /\ FailedLayers(pkgs[r.kind].tarball) = {}
           /\ (pkgs[r.kind].meta # r.before.meta) => EventAt(r, "meta", TRUE) # {}
           /\ (\/ \E m \in 1..Len(r.events) :
                      r.events[m].step \in AbortingSteps /\ ~r.events[m].ok
               \/ FailedLayers(pkgs[r.kind].tarball) # {})
                  => /\ r.err # NilError
                     /\ \A m \in 1..Len(r.events) : r.events[m].step \notin GenerationSteps
                     /\ Untouched(r)

\* a voice of three files was downloaded, appended and closed, and its
\* dist.json replaced the one of the older version
C10_Witness ==
    \E i \in 1..Len(runs) :
        /\ runs[i].kind = "voice"
        /\ Len(runs[i].urls) = 3
        /\ runs[i].net = 3
        /\ runs[i].err = NilError
        /\ runs[i].before.meta = StaleMeta
        /\ pkgs["voice"].meta.Version = Version
        /\ pkgs["voice"].meta.Hash = pkgs["voice"].tarball.writer.out
        /\ Len(ReadArchive(pkgs["voice"].tarball.writer.out).entries) = 3

\* installPiper closed the tarball with a failure after a clean Extract and
\* returned the close error without generating the package
C10_PiperCloseFailed ==
    \E i \in PiperRuns :
        /\ FailedLayers(pkgs["piper"].tarball) # {}
        /\ \A m \in 1..Len(runs[i].events) :
               runs[i].events[m].step # "close" => runs[i].events[m].ok
        /\ runs[i].err # NilError

(***************************************************************************)
(* main: the voices are installed in the order the map yields them, then   *)
(* the piper archives likewise.  log.Fatal in a loop body writes the       *)
(* message and ends the process with os.Exit(1).                           *)
(***************************************************************************)
VoiceVersion == "1.0.0"
Voices == {"jenny", "alan", "kristin", "bryce"}
Platforms == {"linux", "windows", "darwin"}
Assets == Voices \cup Platforms

\* the directory of a voice on the server
VoiceDir(name) ==
    CASE name = "jenny" -> <<"j", "/">>
      [] name = "alan" -> <<"a", "/">>
      [] name = "kristin" -> <<"k", "/">>
      [] name = "bryce" -> <<"b", "/">>

\* the addresses of a voice, in the order of its list
VoiceURLsOf(name) ==
    IF name = "jenny"
    THEN <<VoiceDir(name) \o <<"m">> \o OnnxExt,
           VoiceDir(name) \o <<"m">> \o OnnxExt \o JsonExt,
           VoiceDir(name) \o ModelCardName>>
    ELSE <<VoiceDir(name) \o <<"m">> \o OnnxExt,
           VoiceDir(name) \o ModelCardName,
           VoiceDir(name) \o <<"m">> \o OnnxExt \o JsonExt>>

\* the address of the archive of a platform
ArchiveURLOf(platform) ==
    CASE platform = "linux" -> PiperURL
      [] platform = "windows" -> <<"h", "/", "w">>
      [] platform = "darwin" -> <<"h", "/", "d">>

MainURLs ==
    {ArchiveURLOf(p) : p \in Platforms}
    \cup UNION {Range(VoiceURLsOf(v)) : v \in Voices}

\* what may go wrong while one asset is installed
MainFaults ==
    {<<"get", 1, "">>, <<"append", 2, "copy">>, <<"close", 0, "encoder">>,
     <<"run", 2, "">>}

MainEnvs ==
    [faults : {{}} \cup {{x} : x \in MainFaults},
     body : {<<Magic("tar"), PiperDir, PiperBin, OtherFile, PiperLink, PiperDev>>}]

InstalledAssets == {runs[i].asset : i \in 1..Len(runs)}

\* log.Fatal has ended the process: the last install returned an error
MainExited == runs # <<>> /\ runs[Len(runs)].err # NilError

\* main has returned or the process has exited
MainEnded == MainExited \/ InstalledAssets = Assets

MainRun(asset, kind, r) ==
    [asset |-> asset, kind |-> kind, err |-> r.err, events |-> r.events]

InitMain ==
    /\ cache = [p \in {CachePath(RootDir, u) : u \in MainURLs} |-> NoFile]
    /\ pkgs = [a \in Assets |-> NewPackage]
    /\ netCalls = 0
    /\ runs = <<>>
    /\ dlLog = <<>>
    /\ IdleArchive
    /\ IdleMeta

\* one turn of the loop over voices
MainInstallVoice ==
    /\ ~MainExited
    /\ \E name \in Voices \ InstalledAssets, env \in MainEnvs :
          LET r == InstallVoice(cache, pkgs[name], RootDir, VoiceVersion,
                                VoiceURLsOf(name), env)
          IN /\ cache' = r.cache
             /\ netCalls' = netCalls + r.net
             /\ pkgs' = [pkgs EXCEPT ![name] = r.pkg]
             /\ runs' = Append(runs, MainRun(name, "voice", r))
    /\ UNCHANGED <<impl, tb, calls, dlLog, files, distJson, metaCalls>>

\* one turn of the loop over archives, which follows the loop over voices
MainInstallPiper ==
    /\ ~MainExited
    /\ Voices \subseteq InstalledAssets
    /\ \E platform \in Platforms \ InstalledAssets, env \in MainEnvs :
          LET r == InstallPiper(cache, pkgs[platform], RootDir, Version,
                                ArchiveURLOf(platform), env)
          IN /\ cache' = r.cache
             /\ netCalls' = netCalls + r.net
             /\ pkgs' = [pkgs EXCEPT ![platform] = r.pkg]
             /\ runs' = Append(runs, MainRun(platform, "piper", r))
    /\ UNCHANGED <<impl, tb, calls, dlLog, files, distJson, metaCalls>>

NextMain == MainInstallVoice \/ MainInstallPiper

SpecMain == InitMain /\ [][NextMain]_vars

\* C11: when main has ended, every asset's install operation has been run,
\* whether or not the install of another asset failed: a failed asset does
\* not keep the others from being packaged.
C11_OtherAssetsStillPackaged ==
    MainEnded => InstalledAssets = Assets
====
